---- MODULE Spec2Model ----
(***************************************************************************)
(* Model of streaming_stt.py: the MicrophoneStream capture buffer (audio   *)
(* callback thread, request-generator consumer thread, main thread running *)
(* the context manager) and listen_print_loop (the transcript/metrics      *)
(* loop run by the main thread inside the with-body of main()).            *)
(***************************************************************************)
EXTENDS Integers, Sequences, FiniteSets, TLC

(* ------------------------------ bounds --------------------------------- *)
\* number of audio callbacks the device delivers in one session
MaxChunks == 3
\* number of responses the service sends in one session
MaxResponses == 2
\* seconds that may pass between two readings of the clock
MaxTick == 5

(* ------------------------------- state -------------------------------- *)
VARIABLES
    lpc,                     \* position of the main thread in listen_print_loop
    exc,                     \* the exception that ended the for loop, if any
    clock,                   \* time.time(), in seconds
    session_start,
    cpu_snapshots,
    ram_snapshots,
    latency_samples,
    peak_memory,
    total_transcribed_time,
    elapsed_time,
    avg_latency,
    avg_cpu,
    avg_ram,
    rtf,
    transcript_file,         \* content of output_file on disk
    metrics_file,            \* content of METRICS_FILE on disk: the records in it
    metrics_writes,          \* history: how many times METRICS_FILE was written
    received,                \* history: the responses the for loop has received
    memory_seen              \* history: the readings of `memory`, line 86

loopvars == <<lpc, exc, clock, session_start, cpu_snapshots, ram_snapshots,
              latency_samples, peak_memory, total_transcribed_time,
              elapsed_time, avg_latency, avg_cpu, avg_ram, rtf,
              transcript_file, metrics_file, metrics_writes, received,
              memory_seen>>

(* --------------------------- MicrophoneStream -------------------------- *)
VARIABLES
    pc_main,      \* position of the main thread in main()'s with statement
    closed,       \* MicrophoneStream.closed
    buff,         \* MicrophoneStream._buff, a FIFO queue.Queue()
    gpc,          \* position of the consumer inside generator()
    data,         \* generator()'s local list `data`
    yielded,      \* the buffers generator() has yielded, in yield order
    enqueued,     \* history: the chunks _fill_buffer has put, in put order
    sentinels,    \* history: how many times __exit__ has put None
    blocked_at_close, \* history: the consumer was blocked in get() on an
                      \* empty queue when __exit__ put the sentinel
    started_closed    \* history: closed was True when generator() was entered

micvars == <<pc_main, closed, buff, gpc, data, yielded, enqueued, sentinels,
             blocked_at_close, started_closed>>

\* the sentinel None; no audio sample is negative in this encoding
None == <<-1>>


\* variant: a LIFO queue (queue.LifoQueue) in place of queue.Queue
PutLifo(q, x) == <<x>> \o q

\* queue.Queue.put: append at the tail (unbounded queue, never blocks)
Put(q, x) == Append(q, x)

\* the in_data of the k-th callback: one frame tagged with its capture index
InData(k) == <<k>>

\* b"".join(data)
RECURSIVE Join(_)
Join(d) == IF d = <<>> THEN <<>> ELSE Head(d) \o Join(Tail(d))


\* variant: the device keeps calling back until terminate()
StreamActiveUntilTerminate ==
    pc_main \in {"opened", "body", "stopped", "flagged", "sentinel"}

\* the device runs its callback from open() until stop_stream() returns
StreamActive == pc_main \in {"opened", "body"}

\* main() has handed stream.generator() to streaming_recognize
Started == pc_main \in {"body", "stopped", "flagged", "sentinel", "exited"}

InitMic ==
    /\ pc_main = "init"
    /\ closed = TRUE
    /\ buff = <<>>
    /\ gpc = "idle"
    /\ data = <<>>
    /\ yielded = <<>>
    /\ enqueued = <<>>
    /\ sentinels = 0
    /\ blocked_at_close = FALSE
    /\ started_closed = FALSE

\* __enter__, lines 26-34: the device opens and starts calling back
EnterOpen ==
    /\ pc_main = "init"
    /\ pc_main' = "opened"
    /\ UNCHANGED <<closed, buff, gpc, data, yielded, enqueued, sentinels,
                   blocked_at_close, started_closed>>
    /\ UNCHANGED loopvars


\* variant: self.closed = False set before the device is opened
EnterFailAfterFlag ==
    /\ pc_main = "init"
    /\ closed' = FALSE
    /\ pc_main' = "failed"
    /\ UNCHANGED <<buff, gpc, data, yielded, enqueued, sentinels,
                   blocked_at_close, started_closed>>
    /\ UNCHANGED loopvars

\* __enter__, lines 26-34: the device cannot be opened; the error leaves main()
EnterFail ==
    /\ pc_main = "init"
    /\ pc_main' = "failed"
    /\ UNCHANGED <<closed, buff, gpc, data, yielded, enqueued, sentinels,
                   blocked_at_close, started_closed>>
    /\ UNCHANGED loopvars

\* __enter__, lines 35-36
EnterSetOpen ==
    /\ pc_main = "opened"
    /\ closed' = FALSE
    /\ pc_main' = "body"
    /\ UNCHANGED <<buff, gpc, data, yielded, enqueued, sentinels,
                   blocked_at_close, started_closed>>
    /\ UNCHANGED loopvars

\* _fill_buffer, run by the device's thread
FillBuffer ==
    /\ StreamActive
    /\ Len(enqueued) < MaxChunks
    /\ buff' = Put(buff, InData(Len(enqueued) + 1))
    /\ enqueued' = Append(enqueued, InData(Len(enqueued) + 1))
    /\ UNCHANGED <<pc_main, closed, gpc, data, yielded, sentinels,
                   blocked_at_close, started_closed>>
    /\ UNCHANGED loopvars

\* __exit__, lines 39-40: stop_stream() and close()
ExitStop ==
    /\ pc_main = "body"
    /\ lpc \in {"returned", "raised"}
    /\ pc_main' = "stopped"
    /\ UNCHANGED <<closed, buff, gpc, data, yielded, enqueued, sentinels,
                   blocked_at_close, started_closed>>
    /\ UNCHANGED loopvars


\* variant: __exit__ without line 41
ExitWithoutFlag ==
    /\ pc_main = "stopped"
    /\ pc_main' = "flagged"
    /\ UNCHANGED <<closed, buff, gpc, data, yielded, enqueued, sentinels,
                   blocked_at_close, started_closed>>
    /\ UNCHANGED loopvars

\* __exit__, line 41
ExitSetClosed ==
    /\ pc_main = "stopped"
    /\ closed' = TRUE
    /\ pc_main' = "flagged"
    /\ UNCHANGED <<buff, gpc, data, yielded, enqueued, sentinels,
                   blocked_at_close, started_closed>>
    /\ UNCHANGED loopvars


\* variant: __exit__ without line 42
ExitWithoutSentinel ==
    /\ pc_main = "flagged"
    /\ pc_main' = "sentinel"
    /\ UNCHANGED <<closed, buff, gpc, data, yielded, enqueued, sentinels,
                   blocked_at_close, started_closed>>
    /\ UNCHANGED loopvars

\* __exit__, line 42
ExitPutSentinel ==
    /\ pc_main = "flagged"
    /\ buff' = Put(buff, None)
    /\ sentinels' = sentinels + 1
    /\ blocked_at_close' = (gpc = "get" /\ buff = <<>>)
    /\ pc_main' = "sentinel"
    /\ UNCHANGED <<closed, gpc, data, yielded, enqueued, started_closed>>
    /\ UNCHANGED loopvars

\* __exit__, line 43
ExitTerminate ==
    /\ pc_main = "sentinel"
    /\ pc_main' = "exited"
    /\ UNCHANGED <<closed, buff, gpc, data, yielded, enqueued, sentinels,
                   blocked_at_close, started_closed>>
    /\ UNCHANGED loopvars

\* the consumer's first next() enters generator()
GenStart ==
    /\ Started
    /\ gpc = "idle"
    /\ gpc' = "test"
    /\ started_closed' = closed
    /\ UNCHANGED <<pc_main, closed, buff, data, yielded, enqueued, sentinels,
                   blocked_at_close>>
    /\ UNCHANGED loopvars

\* line 50: while not self.closed
GenTest ==
    /\ gpc = "test"
    /\ gpc' = IF closed THEN "done" ELSE "get"
    /\ UNCHANGED <<pc_main, closed, buff, data, yielded, enqueued, sentinels,
                   blocked_at_close, started_closed>>
    /\ UNCHANGED loopvars


\* variant: line 52 left out, the sentinel taken for a chunk
GenGetNoSentinelTest ==
    /\ gpc = "get"
    /\ buff # <<>>
    /\ buff' = Tail(buff)
    /\ gpc' = "drain"
    /\ data' = <<Head(buff)>>
    /\ UNCHANGED <<pc_main, closed, yielded, enqueued, sentinels,
                   blocked_at_close, started_closed>>
    /\ UNCHANGED loopvars

\* lines 51-54: the blocking get()
GenGet ==
    /\ gpc = "get"
    /\ buff # <<>>
    /\ buff' = Tail(buff)
    /\ IF Head(buff) = None
         THEN gpc' = "done" /\ data' = <<>>
         ELSE gpc' = "drain" /\ data' = <<Head(buff)>>
    /\ UNCHANGED <<pc_main, closed, yielded, enqueued, sentinels,
                   blocked_at_close, started_closed>>
    /\ UNCHANGED loopvars


\* variant: the blocking get() in the drain loop too
GenDrainBlocking ==
    /\ gpc = "drain"
    /\ buff # <<>>
    /\ buff' = Tail(buff)
    /\ IF Head(buff) = None
         THEN gpc' = "done" /\ data' = <<>>
         ELSE gpc' = "drain" /\ data' = Append(data, Head(buff))
    /\ UNCHANGED <<pc_main, closed, yielded, enqueued, sentinels,
                   blocked_at_close, started_closed>>
    /\ UNCHANGED loopvars

\* lines 55-62: one get_nowait() of the drain loop
GenDrain ==
    /\ gpc = "drain"
    /\ IF buff = <<>>
         THEN gpc' = "yield" /\ UNCHANGED <<buff, data>>
         ELSE /\ buff' = Tail(buff)
              /\ IF Head(buff) = None
                   THEN gpc' = "done" /\ data' = <<>>
                   ELSE gpc' = "drain" /\ data' = Append(data, Head(buff))
    /\ UNCHANGED <<pc_main, closed, yielded, enqueued, sentinels,
                   blocked_at_close, started_closed>>
    /\ UNCHANGED loopvars

\* line 63: yield b"".join(data); the next next() goes back to the loop test
GenYield ==
    /\ gpc = "yield"
    /\ yielded' = Append(yielded, Join(data))
    /\ data' = <<>>
    /\ gpc' = "test"
    /\ UNCHANGED <<pc_main, closed, buff, enqueued, sentinels,
                   blocked_at_close, started_closed>>
    /\ UNCHANGED loopvars

(* --------------------------- listen_print_loop ------------------------- *)
Ticks == {0, MaxTick}

\* rss is counted in KiB here, so that line 86 divides by 1024
MB == 1024

\* a float is modelled as an exact fraction <<numerator, denominator>>,
\* denominator > 0
Rat(n, d) == <<n, d>>
Zero == Rat(0, 1)
RatLess(a, b) == a[1] * b[2] < b[1] * a[2]


\* variant: peak_memory = memory, the latest reading
RatLatest(a, b) == b

\* max(a, b): b only when it is greater
RatMax(a, b) == IF RatLess(a, b) THEN b ELSE a

\* round(x, 2) in hundredths, ties to even
Round2(x) ==
    LET n == 100 * x[1]
        q == n \div x[2]
        r == n % x[2]
    IN  IF 2 * r < x[2] THEN q
        ELSE IF 2 * r > x[2] THEN q + 1
        ELSE IF q % 2 = 0 THEN q ELSE q + 1

RECURSIVE Sum(_)
Sum(s) == IF s = <<>> THEN 0 ELSE Head(s) + Sum(Tail(s))

\* sum(xs) / len(xs) if xs else 0
Mean(xs) == IF xs # <<>> THEN Rat(Sum(xs), Len(xs)) ELSE Zero


\* variant: elapsed_time / (total_transcribed_time or 1)
RealTimeFactorOrOne(elapsed, total) ==
    IF total # 0 THEN Rat(elapsed, total) ELSE Rat(elapsed, 1)

\* line 123
RealTimeFactor(elapsed, total) == IF total # 0 THEN Rat(elapsed, total) ELSE Zero


\* variant: wall-clock latency, the end timestamp left out
LatencyWallClock(now, start, duration) == now - start

\* line 105
Latency(now, start, duration) == now - start - duration

\* line 86
MemoryMB(rss) == Rat(rss, MB)

\* one reading of psutil: cpu_percent(), memory_percent(), memory_info().rss
ProcSamples ==
    { [cpu |-> 0,  ram |-> 1, rss |-> MB \div 2],
      [cpu |-> 50, ram |-> 4, rss |-> 3 * MB] }

\* a recognition result
Result(alts, fin, end) ==
    [alternatives |-> alts, is_final |-> fin, result_end_time |-> end]

\* transcripts are strings, modelled as sequences of characters
T1 == <<"a">>
T2 == <<"b", "c">>

\* the responses the service may send
Responses ==
    { <<>>,
      <<Result(<<>>, TRUE, 2)>>,
      <<Result(<<T1>>, FALSE, 1)>>,
      <<Result(<<T1, T2>>, TRUE, 0)>>,
      <<Result(<<T2>>, TRUE, 2)>>,
      <<Result(<<T1>>, FALSE, 1), Result(<<T2>>, TRUE, 2)>> }

\* lines 94-99: the response is skipped
Skipped(response) ==
    \/ response = <<>>
    \/ response[1].alternatives = <<>>


\* variant: the is_final test left out
IsFinalAlways(result) == TRUE

\* line 103
IsFinal(result) == result.is_final


\* variant: the newline left out
LineNoNewline(transcript) == transcript

\* line 110: transcript + "\n"
Line(transcript) == transcript \o <<"\n">>

\* what an earlier session left in the two files
StaleTranscript == <<"o", "l", "d", "\n">>
StaleSummary ==
    [processing_time |-> -1, real_time_factor |-> -1, avg_latency |-> -1,
     peak_memory_mb |-> -1, avg_cpu_percent |-> -1, avg_ram_percent |-> -1]

\* lines 134-141
Summary(elapsed, r, lat, peak, cpu, ram) ==
    [processing_time |-> Round2(elapsed), real_time_factor |-> Round2(r),
     avg_latency |-> Round2(lat), peak_memory_mb |-> Round2(peak),
     avg_cpu_percent |-> Round2(cpu), avg_ram_percent |-> Round2(ram)]

InitLoop ==
    /\ lpc = "idle"
    /\ exc = "none"
    /\ clock = 1000
    /\ session_start = 0
    /\ cpu_snapshots = <<>>
    /\ ram_snapshots = <<>>
    /\ latency_samples = <<>>
    /\ peak_memory = Zero
    /\ total_transcribed_time = 0
    /\ elapsed_time = 0
    /\ avg_latency = Zero
    /\ avg_cpu = Zero
    /\ avg_ram = Zero
    /\ rtf = Zero
    /\ transcript_file = StaleTranscript
    /\ metrics_file = <<StaleSummary>>
    /\ metrics_writes = 0
    /\ received = <<>>
    /\ memory_seen = <<>>

summaryvars == <<elapsed_time, avg_latency, avg_cpu, avg_ram, rtf,
                 metrics_file, metrics_writes>>


\* variant: open(output_file, "a")
LoopOpenAppend ==
    /\ pc_main = "body"
    /\ lpc = "idle"
    /\ session_start' = clock
    /\ transcript_file' = transcript_file
    /\ lpc' = "streaming"
    /\ UNCHANGED <<exc, clock, cpu_snapshots, ram_snapshots, latency_samples,
                   peak_memory, total_transcribed_time, received,
                   memory_seen>>
    /\ UNCHANGED summaryvars
    /\ UNCHANGED micvars

\* lines 67-81: main() calls listen_print_loop inside the with-body
LoopOpen ==
    /\ pc_main = "body"
    /\ lpc = "idle"
    /\ session_start' = clock
    /\ transcript_file' = <<>>
    /\ lpc' = "streaming"
    /\ UNCHANGED <<exc, clock, cpu_snapshots, ram_snapshots, latency_samples,
                   peak_memory, total_transcribed_time, received,
                   memory_seen>>
    /\ UNCHANGED summaryvars
    /\ UNCHANGED micvars

\* variant: break in place of continue
AfterSkipBreak == "finalizing"

\* lines 95 and 99: continue, the for loop goes on
AfterSkip == "streaming"

\* variant: = in place of +=
AccumulateOverwrite(total, duration) == duration

\* line 107: total_transcribed_time += duration
Accumulate(total, duration) == total + duration

\* lines 83-113: one iteration of the for loop
Response ==
    /\ lpc = "streaming"
    /\ Len(received) < MaxResponses
    /\ \E response \in Responses, s \in ProcSamples, dt \in Ticks :
        LET now == clock + dt IN
        /\ clock' = now
        /\ received' = Append(received, response)
        /\ cpu_snapshots' = Append(cpu_snapshots, s.cpu)
        /\ ram_snapshots' = Append(ram_snapshots, s.ram)
        /\ peak_memory' = RatMax(peak_memory, MemoryMB(s.rss))
        /\ memory_seen' = Append(memory_seen, MemoryMB(s.rss))
        /\ IF Skipped(response)
             THEN /\ lpc' = AfterSkip
                  /\ UNCHANGED <<latency_samples, total_transcribed_time,
                                 transcript_file>>
             ELSE LET result == response[1]
                      transcript == result.alternatives[1]
                      duration == result.result_end_time
                  IN  /\ lpc' = "streaming"
                      /\ IF IsFinal(result)
                           THEN /\ latency_samples' =
                                     Append(latency_samples,
                                            Latency(now, session_start, duration))
                                /\ total_transcribed_time' =
                                     Accumulate(total_transcribed_time, duration)
                                /\ transcript_file' =
                                     transcript_file \o Line(transcript)
                           ELSE UNCHANGED <<latency_samples,
                                            total_transcribed_time,
                                            transcript_file>>
    /\ UNCHANGED <<exc, session_start>>
    /\ UNCHANGED summaryvars
    /\ UNCHANGED micvars

\* the for loop leaves the try block with exception e ("none": the response
\* sequence ended)
LeaveLoop(e) ==
    /\ lpc = "streaming"
    /\ lpc' = "finalizing"
    /\ exc' = e
    /\ UNCHANGED <<clock, session_start, cpu_snapshots, ram_snapshots,
                   latency_samples, peak_memory, total_transcribed_time,
                   transcript_file, received, memory_seen>>
    /\ UNCHANGED summaryvars
    /\ UNCHANGED micvars

\* line 83: the response sequence ends
LoopEnd == LeaveLoop("none")

\* lines 115-116: KeyboardInterrupt while waiting for the next response
Interrupt == LeaveLoop("KeyboardInterrupt")

\* line 83: the response sequence raises an error of the service
ServiceError == LeaveLoop("ServiceError")


\* variant: no except clause
OutcomeNoCatch(e) == IF e = "none" THEN "returned" ELSE "raised"

\* variant: except Exception, every error swallowed
OutcomeCatchAll(e) == "returned"

\* line 115: only KeyboardInterrupt is caught; any other exception is raised
\* again when the finally block is over
Outcome(e) == IF e \in {"none", "KeyboardInterrupt"} THEN "returned" ELSE "raised"


\* variant: the summary in an else clause instead of finally
FinalizeOnNormalEndOnly ==
    /\ lpc = "finalizing"
    /\ IF exc = "none"
         THEN \E dt \in Ticks :
                LET elapsed == Rat(clock + dt - session_start, 1)
                    lat == Mean(latency_samples)
                    cpu == Mean(cpu_snapshots)
                    ram == Mean(ram_snapshots)
                    r == RealTimeFactor(elapsed[1], total_transcribed_time)
                IN  /\ clock' = clock + dt
                    /\ elapsed_time' = elapsed[1]
                    /\ avg_latency' = lat
                    /\ avg_cpu' = cpu
                    /\ avg_ram' = ram
                    /\ rtf' = r
                    /\ metrics_file' =
                         <<Summary(elapsed, r, lat, peak_memory, cpu, ram)>>
                    /\ metrics_writes' = metrics_writes + 1
         ELSE UNCHANGED <<clock, elapsed_time, avg_latency, avg_cpu, avg_ram,
                          rtf, metrics_file, metrics_writes>>
    /\ lpc' = Outcome(exc)
    /\ UNCHANGED <<exc, session_start, cpu_snapshots, ram_snapshots,
                   latency_samples, peak_memory, total_transcribed_time,
                   transcript_file, received, memory_seen>>
    /\ UNCHANGED micvars

\* lines 118-142: the finally block
Finalize ==
    /\ lpc = "finalizing"
    /\ \E dt \in Ticks :
        LET elapsed == Rat(clock + dt - session_start, 1)
            lat == Mean(latency_samples)
            cpu == Mean(cpu_snapshots)
            ram == Mean(ram_snapshots)
            r == RealTimeFactor(elapsed[1], total_transcribed_time)
        IN  /\ clock' = clock + dt
            /\ elapsed_time' = elapsed[1]
            /\ avg_latency' = lat
            /\ avg_cpu' = cpu
            /\ avg_ram' = ram
            /\ rtf' = r
            /\ metrics_file' = <<Summary(elapsed, r, lat, peak_memory, cpu, ram)>>
            /\ metrics_writes' = metrics_writes + 1
    /\ lpc' = Outcome(exc)
    /\ UNCHANGED <<exc, session_start, cpu_snapshots, ram_snapshots,
                   latency_samples, peak_memory, total_transcribed_time,
                   transcript_file, received, memory_seen>>
    /\ UNCHANGED micvars

(* ------------------------------ the program ---------------------------- *)
vars == <<micvars, loopvars>>

Init == InitMic /\ InitLoop

Next ==
    \/ EnterOpen \/ EnterFail \/ EnterSetOpen
    \/ LoopOpen \/ Response \/ LoopEnd \/ Interrupt \/ ServiceError \/ Finalize
    \/ ExitStop \/ ExitSetClosed \/ ExitPutSentinel \/ ExitTerminate
    \/ FillBuffer
    \/ GenStart \/ GenTest \/ GenGet \/ GenDrain \/ GenYield

Spec == Init /\ [][Next]_vars

\* the thread that sends the requests
Consumer == GenStart \/ GenTest \/ GenGet \/ GenDrain \/ GenYield

\* sessions in which the service sends no response: the capture buffer under
\* every interleaving of the three threads
NextStream ==
    \/ EnterOpen \/ EnterFail \/ EnterSetOpen
    \/ LoopOpen \/ LoopEnd \/ Interrupt \/ ServiceError \/ Finalize
    \/ ExitStop \/ ExitSetClosed \/ ExitPutSentinel \/ ExitTerminate
    \/ FillBuffer
    \/ GenStart \/ GenTest \/ GenGet \/ GenDrain \/ GenYield

SpecStream == Init /\ [][NextStream]_vars

\* the same, with the consumer thread scheduled fairly
SpecStreamFair == SpecStream /\ WF_vars(Consumer)

\* sessions observed until listen_print_loop is over, in which the device
\* delivers no audio
NextLoop ==
    \/ EnterOpen \/ EnterSetOpen
    \/ LoopOpen \/ Response \/ LoopEnd \/ Interrupt \/ ServiceError \/ Finalize

SpecLoop == Init /\ [][NextLoop]_vars

\* the same, with the main thread scheduled fairly
SpecLoopFair == SpecLoop /\ WF_vars(Finalize)
(* ------------------------------- claims -------------------------------- *)
\* listen_print_loop is over
LoopOver == lpc \in {"returned", "raised"}

\* the responses received so far whose first result is final and has an
\* alternative
RECURSIVE NumFinals(_)
NumFinals(rs) ==
    IF rs = <<>> THEN 0
    ELSE (IF Head(rs) # <<>> /\ Head(rs)[1].alternatives # <<>>
             /\ Head(rs)[1].is_final THEN 1 ELSE 0) + NumFinals(Tail(rs))

\* no result of any response received so far is final
AllNonFinal(rs) ==
    \A i \in 1..Len(rs) : \A k \in 1..Len(rs[i]) : ~rs[i][k].is_final

\* the position of a captured frame in the stream the device delivered
Captured(b) == CHOOSE p \in 1..Len(Join(enqueued)) : Join(enqueued)[p] = b

\* C1: once the sentinel has been enqueued and generator() has terminated, the
\* yielded buffers, concatenated, are all the enqueued chunks in enqueue order.
\* The code violates this: a return at line 53 or 59, or the loop test at line
\* 50, ends the generator with chunks still in `data` or in the queue.
C1_EveryChunkYielded ==
    (gpc = "done" /\ sentinels = 1) => Join(yielded) = Join(enqueued)

\* C2: once close() has completed, generator() eventually terminates, whatever
\* the consumer was doing when close() ran (under a fairly scheduled consumer).
C2_CloseEndsGenerator == (pc_main = "exited") ~> (gpc = "done")

\* C2 witness: the sentinel was put while the consumer was blocked in get() on
\* an empty queue, and the generator has terminated
C2_Witness == blocked_at_close /\ gpc = "done"

\* C3: whatever ends the for loop, the finally block runs: the metrics file is
\* written exactly once, after the last response, and the loop reaches Done.
C3_FinalizeAlwaysRuns ==
    /\ [](/\ metrics_writes = (IF LoopOver THEN 1 ELSE 0)
          /\ LoopOver => Len(metrics_file) = 1 /\ metrics_file # <<StaleSummary>>)
    /\ [][metrics_writes = 1 => received' = received]_vars
    /\ (lpc = "finalizing") ~> LoopOver

\* C3 witness: the loop was left by an error after a response, and is Done
\* with the metrics written
C3_Witness ==
    /\ lpc = "raised" /\ received # <<>>
    /\ metrics_writes = 1 /\ metrics_file # <<StaleSummary>>

\* C4: a KeyboardInterrupt after at least one final result is caught, and the
\* metrics file holds the averages over what was collected before it.
C4_InterruptKeepsProgress ==
    (LoopOver /\ exc = "KeyboardInterrupt" /\ NumFinals(received) >= 1) =>
        /\ lpc = "returned"
        /\ Len(latency_samples) = NumFinals(received)
        /\ Len(cpu_snapshots) = Len(received)
        /\ Len(ram_snapshots) = Len(received)
        /\ Len(metrics_file) = 1
        /\ metrics_file[1].avg_latency =
             Round2(Rat(Sum(latency_samples), Len(latency_samples)))
        /\ metrics_file[1].avg_cpu_percent =
             Round2(Rat(Sum(cpu_snapshots), Len(cpu_snapshots)))
        /\ metrics_file[1].avg_ram_percent =
             Round2(Rat(Sum(ram_snapshots), Len(ram_snapshots)))
        /\ total_transcribed_time # 0 =>
             metrics_file[1].real_time_factor =
               Round2(Rat(elapsed_time, total_transcribed_time))

\* C4 witness: interrupted after a final result with a duration; the metrics
\* are not the placeholders
C4_Witness ==
    /\ lpc = "returned" /\ exc = "KeyboardInterrupt"
    /\ NumFinals(received) >= 1 /\ total_transcribed_time > 0
    /\ metrics_file[1].real_time_factor # 0
    /\ metrics_file[1].avg_latency # 0
    /\ metrics_file[1].avg_cpu_percent # 0

\* C5: an error of the service is not retried or swallowed: the finally block
\* writes the metrics from what was collected, then the error leaves the loop.
C5_ServiceErrorPropagates ==
    /\ []((LoopOver /\ exc = "ServiceError") =>
            /\ lpc = "raised"
            /\ metrics_writes = 1
            /\ Len(cpu_snapshots) = Len(received)
            /\ Len(metrics_file) = 1
            /\ metrics_file[1].avg_cpu_percent = Round2(Mean(cpu_snapshots))
            /\ metrics_file[1].avg_latency = Round2(Mean(latency_samples)))
    /\ [][exc = "ServiceError" => (exc' = exc /\ received' = received)]_vars

\* C5 witness: the service failed after a final result; the error is out and
\* the metrics are written
C5_Witness ==
    /\ lpc = "raised" /\ exc = "ServiceError"
    /\ latency_samples # <<>> /\ metrics_writes = 1

\* C6: chunks that are yielded are yielded in the order they were captured.
C6_YieldedInCaptureOrder ==
    LET flat == Join(yielded)
    IN  \A i, j \in 1..Len(flat) :
            i < j => Captured(flat[i]) < Captured(flat[j])

\* C6 witness: two buffers yielded, one of them of two chunks
C6_Witness ==
    /\ Len(yielded) >= 2
    /\ \E i \in 1..Len(yielded) : Len(yielded[i]) >= 2

\* C7: no chunk is enqueued once the sentinel is, so no chunk sits behind the
\* sentinel in the queue, and at most one sentinel is enqueued.
C7_NothingAfterSentinel ==
    /\ [](/\ sentinels <= 1
          /\ \A i, j \in 1..Len(buff) : (i < j /\ buff[i] = None) => buff[j] = None)
    /\ [][sentinels >= 1 => enqueued' = enqueued]_vars

\* C7 witness: the sentinel is in the queue behind chunks, and the device had
\* more audio to deliver
C7_Witness ==
    /\ sentinels = 1 /\ Len(enqueued) < MaxChunks
    /\ Len(buff) >= 2 /\ buff[Len(buff)] = None

\* C9: while every result received is non-final, nothing is written to the
\* transcript file and no latency sample is taken.
C9_InterimNeverPersisted ==
    (lpc # "idle" /\ AllNonFinal(received)) =>
        (transcript_file = <<>> /\ latency_samples = <<>>)

\* C9 witness: two responses, all interim, at least one carrying text, and the
\* loop is over
C9_Witness ==
    /\ LoopOver /\ Len(received) >= 2 /\ AllNonFinal(received)
    /\ \E i \in 1..Len(received) : ~Skipped(received[i])

\* C10: at finalization the real-time factor is 0 when no duration was
\* accumulated and elapsed / duration otherwise; an average over no samples is
\* 0; no division by zero happens.
C10_GuardedDivisions ==
    LoopOver =>
        /\ rtf[2] # 0 /\ avg_latency[2] # 0 /\ avg_cpu[2] # 0 /\ avg_ram[2] # 0
        /\ total_transcribed_time = 0 =>
             (rtf[1] = 0 /\ metrics_file[1].real_time_factor = 0)
        /\ total_transcribed_time # 0 =>
             rtf[1] * total_transcribed_time = elapsed_time * rtf[2]
        /\ latency_samples = <<>> =>
             (avg_latency[1] = 0 /\ metrics_file[1].avg_latency = 0)
        /\ cpu_snapshots = <<>> =>
             (avg_cpu[1] = 0 /\ metrics_file[1].avg_cpu_percent = 0)
        /\ ram_snapshots = <<>> =>
             (avg_ram[1] = 0 /\ metrics_file[1].avg_ram_percent = 0)

\* C10 witness: a final result with end timestamp 0 was processed and time has
\* passed, so elapsed > 0 over a duration of 0
C10_Witness ==
    /\ LoopOver /\ latency_samples # <<>>
    /\ total_transcribed_time = 0 /\ elapsed_time > 0
\* the response carries a transcript: it has a result, and its first result
\* has an alternative
HasTranscript(r) == r # <<>> /\ r[1].alternatives # <<>>

\* the response received by the step being taken
Latest == received'[Len(received')]

\* the lines that the final first results of the responses ask for, in order
RECURSIVE FinalLines(_)
FinalLines(rs) ==
    IF rs = <<>> THEN <<>>
    ELSE (IF HasTranscript(Head(rs)) /\ Head(rs)[1].is_final
            THEN Head(rs)[1].alternatives[1] \o <<"\n">> ELSE <<>>)
         \o FinalLines(Tail(rs))

\* the end timestamps of the final first results that carry a transcript, summed
RECURSIVE SumEnds(_)
SumEnds(rs) ==
    IF rs = <<>> THEN 0
    ELSE (IF HasTranscript(Head(rs)) /\ Head(rs)[1].is_final
            THEN Head(rs)[1].result_end_time ELSE 0)
         + SumEnds(Tail(rs))

\* b is a run of consecutive frames of the stream the device delivered
Contiguous(b) ==
    LET all == Join(enqueued)
    IN  \E k \in 0..(Len(all) - Len(b)) : SubSeq(all, k + 1, k + Len(b)) = b

\* C11: each processed final result appends exactly one latency sample,
\* (time of receipt - session start) - end timestamp; nothing else appends one.
C11_LatencyPerFinal ==
    /\ [](Len(latency_samples) = NumFinals(received))
    /\ [][received' # received =>
            IF HasTranscript(Latest) /\ Latest[1].is_final
              THEN latency_samples' =
                     Append(latency_samples,
                            (clock' - session_start) - Latest[1].result_end_time)
              ELSE latency_samples' = latency_samples]_vars

\* C11 witness: received 5 s after the session start, end timestamp 2, the
\* sample is 3
C11_Witness ==
    /\ received = << <<Result(<<T2>>, TRUE, 2)>> >>
    /\ clock - session_start = 5
    /\ latency_samples = <<3>>

\* C12: every response received, skipped or interim included, adds one CPU
\* and one memory sample, and peak_memory is the largest reading so far.
C12_OneSamplePerResponse ==
    /\ Len(cpu_snapshots) = Len(received)
    /\ Len(ram_snapshots) = Len(received)
    /\ Len(memory_seen) = Len(received)
    /\ \A i \in 1..Len(memory_seen) : ~RatLess(peak_memory, memory_seen[i])
    /\ IF memory_seen = <<>>
         THEN peak_memory[1] = 0
         ELSE \E i \in 1..Len(memory_seen) : peak_memory = memory_seen[i]

\* C12 witness: a skipped response with the high reading, then an interim one
\* with the low reading; the peak is still the high one
C12_Witness ==
    /\ Len(received) = 2
    /\ ~HasTranscript(received[1])
    /\ HasTranscript(received[2]) /\ ~received[2][1].is_final
    /\ memory_seen = <<Rat(3 * MB, MB), Rat(MB \div 2, MB)>>
    /\ peak_memory = Rat(3 * MB, MB)
    /\ Len(cpu_snapshots) = 2

\* C13: a response without results, or whose first result has no
\* alternatives, changes neither the transcript file nor the latency samples
\* nor the transcribed duration, raises nothing, and the loop goes on.
C13_EmptyResponseSkipped ==
    [][(received' # received /\ ~HasTranscript(Latest)) =>
          /\ transcript_file' = transcript_file
          /\ latency_samples' = latency_samples
          /\ total_transcribed_time' = total_transcribed_time
          /\ lpc' = "streaming"
          /\ exc' = "none"]_vars

\* C13 witness: a final result without alternatives was skipped, and the next
\* response was processed
C13_Witness ==
    /\ received = << <<Result(<<>>, TRUE, 2)>>, <<Result(<<T2>>, TRUE, 2)>> >>
    /\ transcript_file = T2 \o <<"\n">>
    /\ total_transcribed_time = 2

\* C14: a session overwrites what an earlier one left: the transcript file is
\* empty at session start and afterwards holds this session's final lines
\* only; the metrics file holds this session's summary and nothing else.
C14_SessionOverwrites ==
    /\ (lpc = "streaming" /\ received = <<>>) => transcript_file = <<>>
    /\ LoopOver =>
         /\ transcript_file = FinalLines(received)
         /\ metrics_file =
              << [processing_time |-> 100 * elapsed_time,
                  real_time_factor |-> Round2(rtf),
                  avg_latency |-> Round2(avg_latency),
                  peak_memory_mb |-> Round2(peak_memory),
                  avg_cpu_percent |-> Round2(avg_cpu),
                  avg_ram_percent |-> Round2(avg_ram)] >>

\* C14 witness: the earlier session's transcript and summary are gone, one
\* line of this session is in the transcript file
C14_Witness ==
    /\ LoopOver
    /\ transcript_file = T2 \o <<"\n">>
    /\ Len(metrics_file) = 1 /\ metrics_file[1].processing_time >= 0

\* C15: when the device cannot be opened the error ends the session: nothing
\* is retried, closed stays True, the queue stays empty, the generator is not
\* started and listen_print_loop is not entered (the files keep their content).
C15_OpenFailureIsFatal ==
    /\ [](pc_main = "failed" =>
            /\ closed
            /\ buff = <<>> /\ enqueued = <<>> /\ sentinels = 0
            /\ gpc = "idle"
            /\ lpc = "idle"
            /\ transcript_file = StaleTranscript
            /\ metrics_file = <<StaleSummary>> /\ metrics_writes = 0)
    /\ [][pc_main = "failed" => pc_main' = "failed"]_vars

\* C15 witness: the open has failed
C15_Witness == pc_main = "failed" /\ closed /\ lpc = "idle"

\* C16: while streaming and after, the transcript file is the lines of the
\* responses whose first result is final, first alternative each, in order.
C16_TranscriptIsFinalLines ==
    lpc # "idle" => transcript_file = FinalLines(received)

\* C16 witness: a final result in second position wrote nothing, and of two
\* alternatives the first was written
C16_Witness ==
    /\ received = << <<Result(<<T1>>, FALSE, 1), Result(<<T2>>, TRUE, 2)>>,
                     <<Result(<<T1, T2>>, TRUE, 0)>> >>
    /\ transcript_file = T1 \o <<"\n">>

\* C17: every yielded buffer is made of at least one chunk and of chunks that
\* were consecutive in the queue; the consumer can only block in the get() that
\* starts a batch, and only on an empty queue.
C17_BatchesAreContiguous ==
    /\ \A i \in 1..Len(yielded) : yielded[i] # <<>> /\ Contiguous(yielded[i])
    /\ gpc \in {"drain", "yield"} => (data # <<>> /\ Contiguous(Join(data)))
    /\ gpc = "drain" => ENABLED GenDrain
    /\ gpc = "yield" => ENABLED GenYield
    /\ (gpc = "get" /\ buff # <<>>) => ENABLED GenGet

\* C17 witness: a buffer of one chunk, then a buffer of two
C17_Witness == yielded = << <<1>>, <<2, 3>> >>

\* C18: the cumulative transcribed duration is the sum of the end timestamps
\* of the responses whose first result is final and has an alternative, and
\* it never decreases.
C18_DurationIsSumOfFinals ==
    /\ [](total_transcribed_time = SumEnds(received))
    /\ [][total_transcribed_time' >= total_transcribed_time]_vars

\* C18 witness: two final results of 2 s each
C18_Witness ==
    /\ Len(received) = 2 /\ NumFinals(received) = 2
    /\ total_transcribed_time = 4

\* C19: what generator() has yielded so far, concatenated, is a prefix of what
\* the callback has enqueued so far, and the sentinel is never yielded.
C19_YieldedIsPrefix ==
    LET out == Join(yielded)
        all == Join(enqueued)
    IN  /\ Len(out) <= Len(all)
        /\ \A i \in 1..Len(out) : i <= Len(all) => out[i] = all[i]
        /\ \A i \in 1..Len(yielded) : yielded[i] # None

\* C19 witness: the generator has terminated after yielding some, not all, of
\* the chunks
C19_Witness ==
    /\ gpc = "done"
    /\ yielded # <<>>
    /\ Len(Join(yielded)) < Len(Join(enqueued))

\* C20: closed is False exactly between __enter__'s line 35 and __exit__'s
\* line 41; it is True whenever the sentinel has been put; a generator()
\* entered while closed is True yields nothing, never waits on the queue and
\* terminates.
C20_ClosedTracksLifecycle ==
    /\ [](closed = (pc_main \notin {"body", "stopped"}))
    /\ [](sentinels >= 1 => closed)
    /\ [](started_closed => (yielded = <<>> /\ gpc \in {"test", "done"}))
    /\ started_closed ~> (gpc = "done")

\* C20 witness: entered after close, the generator has terminated with the
\* chunks and the sentinel still in the queue
C20_Witness ==
    /\ started_closed /\ gpc = "done"
    /\ Len(buff) >= 2 /\ sentinels = 1
====
